---- MODULE Spec2Model ----
(***************************************************************************)
(* Model of the DAP position dashboard (src/streamlit_dash_.py).           *)
(*                                                                         *)
(* The script is re-executed top to bottom on every interaction: it loads  *)
(* the workbook, parses the sheet DAP_Main into the market catalog         *)
(* (fetch_market_data), recomputes the PnL of the positions held in the    *)
(* session state (Monitor tab) and then serves one user action (add a      *)
(* trade, delete a row, refresh).                                          *)
(*                                                                         *)
(* Python values are modelled as follows.                                  *)
(*   - a str is a TLA+ string;                                             *)
(*   - a float is a record [k, v]: k = "fin" with the integer value v,     *)
(*     k = "nan", or k = "inf" with the sign v (only integral finite       *)
(*     values occur in the model, on which float arithmetic is exact);     *)
(*   - a sheet cell is a record [t, s, n]: a text cell (t = "str"), a      *)
(*     numeric cell (t = "num"), a blank cell read as NaN (t = "nan") or   *)
(*     as None (t = "none");                                               *)
(*   - a DataFrame of cells is a record [ok, nrows, ncols, cells] whose    *)
(*     cells function lists the non-blank cells; every other cell of the   *)
(*     nrows x ncols rectangle is blank (NaN);                             *)
(*   - row and column indices are 0-based as in the source.                *)
(***************************************************************************)
EXTENDS Integers, Sequences, FiniteSets, TLC

VARIABLES
    df_raw,          \* the sheet as read by this run (input of the parse)
    headers,         \* stripped, string-cast cells of the header row
    header_row_idx,  \* index of the header row, -1 if none
    cols,            \* the column map
    df_market,       \* the catalog: sequence of market records
    data_msg,        \* the diagnostic message of fetch_market_data
    raised,          \* TRUE iff fetch_market_data let an exception escape
    positions,       \* st.session_state.positions
    pnl_list,        \* the rows of the Monitor tab of this run
    total_pnl,       \* the portfolio total of this run
    clock,           \* int(time.time()*10000), in logical ticks
    pc               \* position of the script run

vars == <<df_raw, headers, header_row_idx, cols, df_market, data_msg, raised,
          positions, pnl_list, total_pnl, clock, pc>>

\* The element of a singleton set. A value that an operator uses several
\* times is bound through {v \in {e} : ...} so that it is computed once, as
\* the assignment to a Python local is.
The(S) == CHOOSE x \in S : TRUE

-----------------------------------------------------------------------------
(* Python strings *)

Ch(s, i) == SubSeq(s, i, i)

UpperAlpha == "ABCDEFGHIJKLMNOPQRSTUVWXYZ"
LowerAlpha == "abcdefghijklmnopqrstuvwxyz"

LowerChar(c) ==
    IF \E i \in 1..Len(UpperAlpha) : Ch(UpperAlpha, i) = c
    THEN Ch(LowerAlpha, CHOOSE i \in 1..Len(UpperAlpha) : Ch(UpperAlpha, i) = c)
    ELSE c

\* str.lower()
RECURSIVE Lower(_)
Lower(s) ==
    IF s = "" THEN "" ELSE LowerChar(Ch(s, 1)) \o Lower(SubSeq(s, 2, Len(s)))

IsSpace(c) == c \in {" ", "\t", "\n", "\r"}

RECURSIVE LStrip(_)
LStrip(s) ==
    IF s # "" /\ IsSpace(Ch(s, 1)) THEN LStrip(SubSeq(s, 2, Len(s))) ELSE s

RECURSIVE RStrip(_)
RStrip(s) ==
    IF s # "" /\ IsSpace(Ch(s, Len(s))) THEN RStrip(SubSeq(s, 1, Len(s) - 1)) ELSE s

\* str.strip()
Strip(s) == RStrip(LStrip(s))

\* kw in h, for two strings
Contains(h, kw) ==
    \E i \in 1..(Len(h) - Len(kw) + 1) : SubSeq(h, i, i + Len(kw) - 1) = kw

-----------------------------------------------------------------------------
(* Python floats *)

Fin(n) == [k |-> "fin", v |-> n]
NaN == [k |-> "nan", v |-> 0]
PInf == [k |-> "inf", v |-> 1]
NInf == [k |-> "inf", v |-> -1]

IsFinite(x) == x.k = "fin"

Sign(n) == IF n > 0 THEN 1 ELSE IF n < 0 THEN -1 ELSE 0

FNeg(a) == IF a.k = "nan" THEN NaN ELSE [k |-> a.k, v |-> -a.v]

FAdd(a, b) ==
    CASE a.k = "nan" \/ b.k = "nan" -> NaN
      [] a.k = "inf" /\ b.k = "inf" -> IF a.v = b.v THEN a ELSE NaN
      [] a.k = "inf" -> a
      [] b.k = "inf" -> b
      [] OTHER -> Fin(a.v + b.v)

FSub(a, b) == FAdd(a, FNeg(b))

FMul(a, b) ==
    CASE a.k = "nan" \/ b.k = "nan" -> NaN
      [] a.k = "inf" \/ b.k = "inf" ->
            IF a.v = 0 \/ b.v = 0 THEN NaN
            ELSE [k |-> "inf", v |-> Sign(a.v) * Sign(b.v)]
      [] OTHER -> Fin(a.v * b.v)

\* a > 0 (False for NaN)
FGtZero(a) == a.k # "nan" /\ a.v > 0

-----------------------------------------------------------------------------
(* Sheet cells *)

StrCell(s) == [t |-> "str", s |-> s, n |-> 0]
NumCell(n) == [t |-> "num", s |-> "", n |-> n]
NaNCell == [t |-> "nan", s |-> "", n |-> 0]
NoneCell == [t |-> "none", s |-> "", n |-> 0]

\* str(x) of a cell: a numeric cell is a float, printed with its ".0"
PyStr(x) ==
    CASE x.t = "str" -> x.s
      [] x.t = "num" -> ToString(x.n) \o ".0"
      [] x.t = "nan" -> "nan"
      [] OTHER -> "None"

Digits == "0123456789"

IsDigit(c) == \E i \in 1..Len(Digits) : Ch(Digits, i) = c

DigitVal(c) == (CHOOSE i \in 1..Len(Digits) : Ch(Digits, i) = c) - 1

AllDigits(s) == \A i \in 1..Len(s) : IsDigit(Ch(s, i))

AllZeros(s) == \A i \in 1..Len(s) : Ch(s, i) = "0"

RECURSIVE DigitsVal(_)
DigitsVal(s) ==
    IF s = "" THEN 0
    ELSE 10 * DigitsVal(SubSeq(s, 1, Len(s) - 1)) + DigitVal(Ch(s, Len(s)))

\* Position of the first "." of s, 0 if none
DotAt(s) ==
    IF \E i \in 1..Len(s) : Ch(s, i) = "."
    THEN CHOOSE i \in 1..Len(s) : Ch(s, i) = "." /\ \A j \in 1..(i - 1) : Ch(s, j) # "."
    ELSE 0

\* float(s) of a str: [ok, val]. Surrounding whitespace is ignored, a sign is
\* allowed, "inf", "infinity" and "nan" are read in any letter case. Decimal
\* literals are read when their value is integral (digits, optionally followed
\* by "." and zeros); the model's cells hold no literal with a fraction, an
\* exponent or an underscore.
ParseFloat(s) ==
    LET t == Strip(s)
        neg == t # "" /\ Ch(t, 1) = "-"
        signed == t # "" /\ Ch(t, 1) \in {"-", "+"}
        body == Lower(IF signed THEN SubSeq(t, 2, Len(t)) ELSE t)
        d == DotAt(body)
        ip == IF d = 0 THEN body ELSE SubSeq(body, 1, d - 1)
        fp == IF d = 0 THEN "" ELSE SubSeq(body, d + 1, Len(body))
    IN  CASE body \in {"inf", "infinity"} ->
                [ok |-> TRUE, val |-> IF neg THEN NInf ELSE PInf]
          [] body = "nan" -> [ok |-> TRUE, val |-> NaN]
          [] ip # "" /\ AllDigits(ip) /\ AllZeros(fp) ->
                [ok |-> TRUE,
                 val |-> Fin(IF neg THEN -DigitsVal(ip) ELSE DigitsVal(ip))]
          [] OTHER -> [ok |-> FALSE, val |-> Fin(0)]

\* float(x) of a cell: float(None) raises TypeError, float(nan) is nan
PyFloat(x) ==
    CASE x.t = "num" -> [ok |-> TRUE, val |-> Fin(x.n)]
      [] x.t = "nan" -> [ok |-> TRUE, val |-> NaN]
      [] x.t = "none" -> [ok |-> FALSE, val |-> Fin(0)]
      [] OTHER -> ParseFloat(x.s)

\* clean_float: float(x), 0.0 on any exception
clean_float(x) ==
    LET r == PyFloat(x) IN IF r.ok THEN r.val ELSE Fin(0)

-----------------------------------------------------------------------------
(* The raw sheet *)

ScanLimit == 15
RowLimit == 300

Min(a, b) == IF a < b THEN a ELSE b

\* df_raw.iloc[r, c], for a row and a column inside the rectangle
CellAt(df, r, c) ==
    IF <<r, c>> \in DOMAIN df.cells THEN df.cells[<<r, c>>] ELSE NaNCell

\* df_raw.iloc[:n]
HeadRows(df, n) == [df EXCEPT !.nrows = Min(df.nrows, n)]

\* [str(x) for x in df_raw.iloc[r].values]
RowVals(df, r) == [c \in 1..df.ncols |-> PyStr(CellAt(df, r, c - 1))]

InList(x, list) == \E i \in 1..Len(list) : list[i] = x

NoExc == [type |-> "", msg |-> ""]
IndexError == [type |-> "IndexError", msg |-> "single positional indexer is out-of-bounds"]
KeyError(key) == [type |-> "KeyError", msg |-> ToString(key)]
FileNotFoundError == [type |-> "FileNotFoundError", msg |-> "[Errno 2] No such file or directory"]

-----------------------------------------------------------------------------
(* FIND HEADERS *)

\* The test with its second token forgotten
IsHeaderRowOutrightsOnly(row_vals) == InList("Outrights", row_vals)

\* "Outrights" in row_vals or "Spread" in row_vals
IsHeaderRow(row_vals) == InList("Outrights", row_vals) \/ InList("Spread", row_vals)

\* The loop "for i in range(15)" from iteration i on: df_raw.iloc[i] raises
\* IndexError when the sheet has no row i.
RECURSIVE FindHeaderFrom(_, _)
FindHeaderFrom(df, i) ==
    IF i >= ScanLimit THEN [exc |-> NoExc, idx |-> -1]
    ELSE IF i >= df.nrows THEN [exc |-> IndexError, idx |-> -1]
    ELSE IF IsHeaderRow(RowVals(df, i)) THEN [exc |-> NoExc, idx |-> i]
    ELSE FindHeaderFrom(df, i + 1)

FindHeader(df) == FindHeaderFrom(df, 0)

\* headers = [str(x).strip() for x in df_raw.iloc[header_row_idx].values]
HeaderCells(df, r) == [c \in 1..df.ncols |-> Strip(PyStr(CellAt(df, r, c - 1)))]

-----------------------------------------------------------------------------
(* MAP COLUMNS *)

UnmappedCols ==
    [out_name |-> -1, out_last |-> -1, out_tv |-> -1,
     spd_name |-> -1, spd_last |-> -1, fly_name |-> -1, fly_last |-> -1]

\* One iteration of "for idx, h in enumerate(headers)", h already lower-cased.
\* Each if assigns one field of its own; the two "last" tests read the name
\* column as the if just before them leaves it.
MapHeaderCell(c, idx, h) ==
    LET spd_name == IF idx > 10 /\ idx < 20 /\ Contains(h, "spread")
                       /\ c.spd_name = -1
                    THEN idx ELSE c.spd_name
        fly_name == IF idx > 20 /\ Contains(h, "fly") /\ c.fly_name = -1
                    THEN idx ELSE c.fly_name
    IN  [out_name |-> IF idx < 10
                         /\ (Contains(h, "outright") \/ Contains(h, "symbol"))
                      THEN idx ELSE c.out_name,
         out_last |-> IF idx < 10
                         /\ (Contains(h, "last") \/ Contains(h, "price"))
                         /\ c.out_last = -1
                      THEN idx ELSE c.out_last,
         out_tv   |-> IF idx < 15 /\ Contains(h, "tick value")
                      THEN idx ELSE c.out_tv,
         spd_name |-> spd_name,
         spd_last |-> IF idx > 10 /\ idx < 25
                         /\ (Contains(h, "last") \/ Contains(h, "ltp"))
                         /\ c.spd_last = -1 /\ idx > spd_name
                      THEN idx ELSE c.spd_last,
         fly_name |-> fly_name,
         fly_last |-> IF idx > 20
                         /\ (Contains(h, "last") \/ Contains(h, "ltp"))
                         /\ c.fly_last = -1 /\ idx > fly_name
                      THEN idx ELSE c.fly_last]

\* The loop over the header cells from index idx on: h = h.lower(), then the ifs
RECURSIVE MapHeadersFrom(_, _, _)
MapHeadersFrom(hs, idx, c) ==
    IF idx >= Len(hs) THEN c
    ELSE The({MapHeadersFrom(hs, idx + 1, v) :
                v \in {MapHeaderCell(c, idx, h) : h \in {Lower(hs[idx + 1])}}})

\* The fallbacks with the spread block's defaults swapped
ApplyFallbacksSwapped(c) ==
    [out_name |-> IF c.out_name = -1 THEN 1 ELSE c.out_name,
     out_last |-> IF c.out_last = -1 THEN 3 ELSE c.out_last,
     out_tv   |-> IF c.out_tv = -1 THEN 14 ELSE c.out_tv,
     spd_name |-> IF c.spd_name = -1 THEN 14 ELSE c.spd_name,
     spd_last |-> IF c.spd_last = -1 THEN 13 ELSE c.spd_last,
     fly_name |-> IF c.fly_name = -1 THEN 25 ELSE c.fly_name,
     fly_last |-> IF c.fly_last = -1 THEN 26 ELSE c.fly_last]

\* Fallbacks: every index still at -1 gets its hardcoded column
ApplyFallbacks(c) ==
    [out_name |-> IF c.out_name = -1 THEN 1 ELSE c.out_name,
     out_last |-> IF c.out_last = -1 THEN 3 ELSE c.out_last,
     out_tv   |-> IF c.out_tv = -1 THEN 14 ELSE c.out_tv,
     spd_name |-> IF c.spd_name = -1 THEN 13 ELSE c.spd_name,
     spd_last |-> IF c.spd_last = -1 THEN 14 ELSE c.spd_last,
     fly_name |-> IF c.fly_name = -1 THEN 25 ELSE c.fly_name,
     fly_last |-> IF c.fly_last = -1 THEN 26 ELSE c.fly_last]

MapColumns(hs) == ApplyFallbacks(MapHeadersFrom(hs, 0, UnmappedCols))

-----------------------------------------------------------------------------
(* The rows below the header *)

\* name and name.lower() not in ['nan', 'none', '']
NameOk(name) == name # "" /\ Lower(name) \notin {"nan", "none", ""}

MarketRecord(name, type, price, tv) ==
    [Instrument |-> name, Type |-> type, Price |-> price, TickValue |-> tv]

\* row[c] of a data row: the label c is missing when the sheet is narrower
HasCol(df, c) == c >= 0 /\ c < df.ncols

\* 1. OUTRIGHTS of data row r: [exc, recs]
OutrightOf(df, r, c) ==
    IF ~HasCol(df, c.out_name) THEN [exc |-> KeyError(c.out_name), recs |-> <<>>]
    ELSE LET name == PyStr(CellAt(df, r, c.out_name))
         IN  IF ~NameOk(name) THEN [exc |-> NoExc, recs |-> <<>>]
             ELSE IF ~HasCol(df, c.out_last)
                  THEN [exc |-> KeyError(c.out_last), recs |-> <<>>]
             ELSE IF ~HasCol(df, c.out_tv)
                  THEN [exc |-> KeyError(c.out_tv), recs |-> <<>>]
             ELSE [exc |-> NoExc,
                   recs |-> <<MarketRecord(name, "Outright",
                                           clean_float(CellAt(df, r, c.out_last)),
                                           clean_float(CellAt(df, r, c.out_tv)))>>]

\* 2. SPREADS and 3. FLIES of data row r: the tick value is the constant 100.0
BlockOf(df, r, name_col, last_col, type) ==
    IF ~HasCol(df, name_col) THEN [exc |-> KeyError(name_col), recs |-> <<>>]
    ELSE LET name == PyStr(CellAt(df, r, name_col))
         IN  IF ~NameOk(name) THEN [exc |-> NoExc, recs |-> <<>>]
             ELSE IF ~HasCol(df, last_col)
                  THEN [exc |-> KeyError(last_col), recs |-> <<>>]
             ELSE [exc |-> NoExc,
                   recs |-> <<MarketRecord(name, type,
                                           clean_float(CellAt(df, r, last_col)),
                                           Fin(100))>>]

\* One iteration of "for i, row in data_rows.iterrows()": the three blocks in
\* order, the first exception ending the iteration
RowRecords(df, r, c) ==
    LET o == OutrightOf(df, r, c)
        s == BlockOf(df, r, c.spd_name, c.spd_last, "Spread")
        f == BlockOf(df, r, c.fly_name, c.fly_last, "Fly")
    IN  IF o.exc # NoExc THEN o
        ELSE IF s.exc # NoExc THEN s
        ELSE IF f.exc # NoExc THEN f
        ELSE [exc |-> NoExc, recs |-> o.recs \o s.recs \o f.recs]

\* The loop over the data rows from sheet row r on, market_list so far in acc
RECURSIVE RowsFrom(_, _, _, _)
RowsFrom(df, r, c, acc) ==
    IF r >= df.nrows THEN [exc |-> NoExc, recs |-> acc]
    ELSE The({IF one.exc # NoExc THEN [exc |-> one.exc, recs |-> <<>>]
              ELSE RowsFrom(df, r + 1, c, acc \o one.recs) :
                 one \in {RowRecords(df, r, c)}})

-----------------------------------------------------------------------------
(* fetch_market_data *)

Outcome(exc, hs, idx, c, recs, msg) ==
    [exc |-> exc, headers |-> hs, header_row_idx |-> idx, cols |-> c,
     df_market |-> recs, data_msg |-> msg]

\* The try block from "MAP COLUMNS" on, the header row found at index idx
ParseBelow(df, idx, hs, c) ==
    The({IF rows.exc # NoExc
         THEN Outcome(rows.exc, hs, idx, c, <<>>, "")
         ELSE Outcome(NoExc, hs, idx, c, rows.recs, "Success") :
            rows \in {RowsFrom(df, idx + 1, c, <<>>)}})

\* The try block from "FIND HEADERS" on
ParseSheet(df, found) ==
    IF found.exc # NoExc
    THEN Outcome(found.exc, <<>>, -1, UnmappedCols, <<>>, "")
    ELSE IF found.idx = -1
    THEN Outcome(NoExc, <<>>, -1, UnmappedCols, <<>>,
                 "Could not find 'Outrights' header row.")
    ELSE The({The({ParseBelow(df, found.idx, hs, c) : c \in {MapColumns(hs)}}) :
                hs \in {HeaderCells(df, found.idx)}})

\* The body of the try block on the sheet the loader hands over; a sheet that
\* cannot be read (ok = FALSE) raises in the read itself.
TryBody(sheet) ==
    IF ~sheet.ok
    THEN Outcome(FileNotFoundError, <<>>, -1, UnmappedCols, <<>>, "")
    ELSE The({The({ParseSheet(df, found) : found \in {FindHeader(df)}}) :
                df \in {HeadRows(sheet, RowLimit)}})

\* The result of the call, b the outcome of the try block and escaped telling
\* whether the exception gets past the handler
Returned(b, escaped) ==
    [headers |-> b.headers, header_row_idx |-> b.header_row_idx,
     cols |-> b.cols,
     df_market |-> IF b.exc = NoExc THEN b.df_market ELSE <<>>,
     data_msg |-> IF b.exc = NoExc THEN b.data_msg ELSE b.exc.msg,
     raised |-> escaped]

\* A handler that catches the lookup of a missing row only
fetch_market_data_index_only(sheet) ==
    The({Returned(b, b.exc.type \notin {"", "IndexError"}) :
           b \in {TryBody(sheet)}})

\* try: ... except Exception as e: return pd.DataFrame(), str(e)
fetch_market_data(sheet) ==
    The({Returned(b, FALSE) : b \in {TryBody(sheet)}})

-----------------------------------------------------------------------------
(* Monitor tab: the PnL pass *)

\* df_market[df_market['Instrument'] == inst]
Matches(cat, inst) == SelectSeq(cat, LAMBDA r : r.Instrument = inst)

\* The last matching record instead of the first
LiveRecordLast(rows) == rows[Len(rows)]

\* row.iloc[0]
LiveRecord(rows) == rows[1]

\* The override taken whenever it is not zero
EffectiveTickValueNonZero(p, rec) ==
    IF p.TV # Fin(0) THEN p.TV ELSE rec.TickValue

\* tv = p['TV'] if p['TV'] > 0 else row.iloc[0]['TickValue']
EffectiveTickValue(p, rec) ==
    IF FGtZero(p.TV) THEN p.TV ELSE rec.TickValue

PnLRow(p, live, pnl) ==
    [ID |-> p.id, Instrument |-> p.Instrument, Lots |-> p.Lots,
     Entry |-> p.Entry, Live |-> live, PnL |-> pnl]

\* The loop body with the miss branch dropping the row
PnLStepSkipMiss(acc, p, cat) ==
    LET row == Matches(cat, p.Instrument)
    IN  IF row # <<>>
        THEN LET live_price == LiveRecord(row).Price
                 tv == EffectiveTickValue(p, LiveRecord(row))
                 pnl == FMul(FMul(FSub(live_price, p.Entry), Fin(p.Lots)), tv)
             IN  [total_pnl |-> FAdd(acc.total_pnl, pnl),
                  pnl_list |-> Append(acc.pnl_list, PnLRow(p, live_price, pnl))]
        ELSE acc

\* One iteration of "for p in st.session_state.positions"
PnLStep(acc, p, cat) ==
    LET row == Matches(cat, p.Instrument)
    IN  IF row # <<>>
        THEN LET live_price == LiveRecord(row).Price
                 tv == EffectiveTickValue(p, LiveRecord(row))
                 pnl == FMul(FMul(FSub(live_price, p.Entry), Fin(p.Lots)), tv)
             IN  [total_pnl |-> FAdd(acc.total_pnl, pnl),
                  pnl_list |-> Append(acc.pnl_list, PnLRow(p, live_price, pnl))]
        ELSE [total_pnl |-> acc.total_pnl,
              pnl_list |-> Append(acc.pnl_list, PnLRow(p, Fin(0), Fin(0)))]

RECURSIVE PnLFrom(_, _, _, _)
PnLFrom(ps, i, cat, acc) ==
    IF i > Len(ps) THEN acc
    ELSE PnLFrom(ps, i + 1, cat, PnLStep(acc, ps[i], cat))

\* total_pnl = 0.0; pnl_list = []; then the loop
PnLPass(ps, cat) == PnLFrom(ps, 1, cat, [total_pnl |-> Fin(0), pnl_list |-> <<>>])

-----------------------------------------------------------------------------
(* The sheets the workbook is seen to hold *)

MaxPositions == 2
MaxClock == 3

NoSheet == [ok |-> FALSE, nrows |-> 0, ncols |-> 0, cells |-> <<>>]

\* A sheet of nr rows and nc columns from a set of <<row, column, cell>> entries
MkSheet(nr, nc, entries) ==
    LET at == {<<e[1], e[2]>> : e \in {x \in entries : x[1] < nr /\ x[2] < nc}}
    IN  [ok |-> TRUE, nrows |-> nr, ncols |-> nc,
         cells |-> [rc \in at |->
                      (CHOOSE e \in entries : e[1] = rc[1] /\ e[2] = rc[2])[3]]]

\* The header row of the workbook's layout, on sheet row r
LayoutHeader(r) ==
    {<<r, 1, StrCell("Outrights")>>, <<r, 3, StrCell("Last")>>,
     <<r, 4, StrCell("Tick Value")>>, <<r, 13, StrCell("Spread")>>,
     <<r, 14, StrCell("Last")>>, <<r, 25, StrCell("Fly")>>,
     <<r, 26, StrCell("LTP")>>}

AppOutrightPrices == {NumCell(71)}
AppTickValues == {NumCell(100)}
AppSpreadNames == {StrCell("CLZ5"), StrCell("CLZ5-CLF6")}
AppSpreadPrices == {NumCell(3)}

\* Header on row 0, one outright on row 1, one spread on row 2 whose name may
\* repeat the outright's
AppSheets ==
    {MkSheet(3, 27,
             LayoutHeader(0)
             \cup {<<1, 1, StrCell("CLZ5")>>, <<1, 3, op>>, <<1, 4, tv>>}
             \cup {<<2, 13, sn>>, <<2, 14, sp>>}) :
        op \in AppOutrightPrices, tv \in AppTickValues,
        sn \in AppSpreadNames, sp \in AppSpreadPrices}
    \cup {MkSheet(3, 27, LayoutHeader(0) \cup {<<1, 13, StrCell("CLF6")>>}),
          MkSheet(3, 27, {})}

\* The number inputs of the Add Trade tab: a long trade with a positive
\* override, a long trade with the override at zero and a short trade with a
\* negative override
EntryChoices == {Fin(69)}
TradeChoices ==
    {[lots |-> 10, tv |-> Fin(5)], [lots |-> 10, tv |-> Fin(0)],
     [lots |-> -1, tv |-> Fin(-2)]}

-----------------------------------------------------------------------------
(* The script run *)

Init ==
    /\ df_raw = NoSheet
    /\ headers = <<>>
    /\ header_row_idx = -1
    /\ cols = UnmappedCols
    /\ df_market = <<>>
    /\ data_msg = ""
    /\ raised = FALSE
    /\ positions = <<>>
    /\ pnl_list = <<>>
    /\ total_pnl = Fin(0)
    /\ clock = 0
    /\ pc = "load"

\* A new run of the script: nothing of the run before is left but the session
\* state. load_data and the read of DAP_Main: the workbook holds some sheet, or
\* the file is missing.
LoadData ==
    /\ pc = "load"
    /\ \E sheet \in AppSheets \cup {NoSheet} : df_raw' = sheet
    /\ headers' = <<>>
    /\ header_row_idx' = -1
    /\ cols' = UnmappedCols
    /\ df_market' = <<>>
    /\ data_msg' = ""
    /\ raised' = FALSE
    /\ pnl_list' = <<>>
    /\ total_pnl' = Fin(0)
    /\ pc' = "fetch"
    /\ UNCHANGED <<positions, clock>>

\* df_market, data_msg = fetch_market_data(book, is_live); st.stop() on an
\* empty catalog
FetchMarketData ==
    /\ pc = "fetch"
    /\ \E r \in {fetch_market_data(df_raw)} :
           /\ headers' = r.headers
           /\ header_row_idx' = r.header_row_idx
           /\ cols' = r.cols
           /\ df_market' = r.df_market
           /\ data_msg' = r.data_msg
           /\ raised' = r.raised
           /\ pc' = IF r.raised THEN "crashed"
                    ELSE IF r.df_market = <<>> THEN "stopped" ELSE "monitor"
    /\ UNCHANGED <<df_raw, positions, pnl_list, total_pnl, clock>>

\* with t1: the PnL pass, or "No active trades."
Monitor ==
    /\ pc = "monitor"
    /\ IF positions = <<>>
       THEN UNCHANGED <<pnl_list, total_pnl>>
       ELSE \E r \in {PnLPass(positions, df_market)} :
                pnl_list' = r.pnl_list /\ total_pnl' = r.total_pnl
    /\ pc' = "ui"
    /\ UNCHANGED <<df_raw, headers, header_row_idx, cols, df_market, data_msg,
                   raised, positions, clock>>

Instruments(cat) == {cat[i].Instrument : i \in 1..Len(cat)}

\* add_trade(sel_inst, lots, entry, tv), then st.rerun()
AddTrade ==
    /\ pc = "ui"
    /\ Len(positions) < MaxPositions
    /\ clock < MaxClock
    /\ \E inst \in Instruments(df_market), entry \in EntryChoices,
          t \in TradeChoices :
         positions' = Append(positions,
                             [id |-> clock, Instrument |-> inst, Lots |-> t.lots,
                              Entry |-> entry, TV |-> t.tv])
    /\ clock' = clock + 1
    /\ pc' = "load"
    /\ UNCHANGED <<df_raw, headers, header_row_idx, cols, df_market, data_msg,
                   raised, pnl_list, total_pnl>>

\* The filter keeping the positions added after the deleted one
RemoveIdAndOlder(ps, id) == SelectSeq(ps, LAMBDA x : x.id > id)

\* [x for x in st.session_state.positions if x['id'] != item['ID']]
RemoveId(ps, id) == SelectSeq(ps, LAMBDA x : x.id # id)

\* The "X" button of a row, then st.rerun()
DeleteRow ==
    /\ pc = "ui"
    /\ \E i \in 1..Len(pnl_list) : positions' = RemoveId(positions, pnl_list[i].ID)
    /\ pc' = "load"
    /\ UNCHANGED <<df_raw, headers, header_row_idx, cols, df_market, data_msg,
                   raised, pnl_list, total_pnl, clock>>

\* A refresh: the sidebar button or a reload of the page
Refresh ==
    /\ pc \in {"ui", "stopped"}
    /\ pc' = "load"
    /\ UNCHANGED <<df_raw, headers, header_row_idx, cols, df_market, data_msg,
                   raised, positions, pnl_list, total_pnl, clock>>

Next == LoadData \/ FetchMarketData \/ Monitor \/ AddTrade \/ DeleteRow \/ Refresh

Spec == Init /\ [][Next]_vars

-----------------------------------------------------------------------------
(* The parse alone, on sheets of many shapes *)

TallRows == 17
WideCols == 27

HeaderTokens ==
    {StrCell("Outrights"), StrCell("Outright"), StrCell("Spread"),
     StrCell("spread"), StrCell(" Outrights "), NaNCell}

HeaderRowChoices == {0, 1, 3, ScanLimit - 1, ScanLimit}

\* A fly on each of a few rows, wherever the header turns out to be
FlyRows(rows) ==
    UNION {{<<r, 25, StrCell("FLY1")>>, <<r, 26, NumCell(5)>>} : r \in rows}

\* Two candidate header cells, on rows r1 < r2, in a tall sheet and in one
\* that ends before the scan limit
HeaderSheets ==
    {MkSheet(nr, WideCols,
             {<<r1, 1, t1>>, <<r2, 13, t2>>} \cup FlyRows({2, 4, TallRows - 1})) :
        nr \in {4, TallRows}, r1 \in HeaderRowChoices, r2 \in HeaderRowChoices,
        t1 \in HeaderTokens, t2 \in HeaderTokens}

NameCells ==
    {StrCell("CLZ5"), StrCell(""), StrCell("NaN"), StrCell("None"),
     StrCell("NONE"), StrCell("nan"), StrCell("  "), StrCell(" CLZ5 "),
     NaNCell, NoneCell, NumCell(5)}

ValueCells ==
    {NumCell(71), NumCell(-2), StrCell("72"), StrCell(" 7.0 "), StrCell("abc"),
     StrCell(""), StrCell("nan"), StrCell("inf"), StrCell("-Infinity"),
     NaNCell, NoneCell}

Blocks == {"Outright", "Spread", "Fly"}

NameCol(b) == CASE b = "Outright" -> 1 [] b = "Spread" -> 13 [] OTHER -> 25
LastCol(b) == CASE b = "Outright" -> 3 [] b = "Spread" -> 14 [] OTHER -> 26

\* The layout's header on row 0, one block filled on row 1 and one on row 2
RowSheets ==
    {MkSheet(3, WideCols,
             LayoutHeader(0)
             \cup {<<1, NameCol(b1), n1>>, <<1, LastCol(b1), v1>>}
             \cup {<<2, NameCol(b2), n2>>, <<2, LastCol(b2), NumCell(3)>>}) :
        b1 \in Blocks, n1 \in NameCells, v1 \in ValueCells,
        b2 \in Blocks, n2 \in {StrCell("CLZ5"), NaNCell}}

ShortRowCounts == {0, 1, 2, ScanLimit - 1, ScanLimit}
ShortColCounts == {2, 4, 14, 15, 26, WideCols}

\* Sheets with few rows or few columns: a header cell on row 0 or 1 or none,
\* and a name below it in one block or none
ShortSheets ==
    {MkSheet(nr, nc, {<<hr, NameCol(hb), ht>>, <<hr + 1, NameCol(b), n>>}) :
        nr \in ShortRowCounts, nc \in ShortColCounts, hr \in {0, 1},
        hb \in {"Outright", "Spread"},
        ht \in {StrCell("Outrights"), StrCell("Spread"), NaNCell},
        b \in Blocks, n \in {StrCell("CLZ5"), NaNCell}}

ParseSheets == HeaderSheets \cup RowSheets \cup ShortSheets \cup {NoSheet}

InitParse ==
    /\ df_raw \in ParseSheets
    /\ headers = <<>>
    /\ header_row_idx = -1
    /\ cols = UnmappedCols
    /\ df_market = <<>>
    /\ data_msg = ""
    /\ raised = FALSE
    /\ positions = <<>>
    /\ pnl_list = <<>>
    /\ total_pnl = Fin(0)
    /\ clock = 0
    /\ pc = "fetch"

SpecParse == InitParse /\ [][FetchMarketData]_vars

-----------------------------------------------------------------------------
(* The column mapper alone, on header rows of many shapes *)

HeaderWidth == 28

MapperTokens ==
    {"Outrights", "Symbol", "Last", "Price", "Tick Value", "Spread", "LTP",
     "Fly", "Bid", ""}

\* The columns next to the limits of the positional gates, and the fallbacks
MapperCols == {0, 3, 9, 10, 11, 13, 14, 15, 19, 20, 21, 24, 25, 26, HeaderWidth - 1}

\* The header row with t1 in column c1 and t2 in column c2, and "nan" (a blank
\* cell, string-cast) everywhere else
HeaderRowOf(c1, t1, c2, t2) ==
    [i \in 1..HeaderWidth |->
        IF i - 1 = c2 THEN t2 ELSE IF i - 1 = c1 THEN t1 ELSE "nan"]

\* The header rows with one or two text cells
HeaderRows ==
    {HeaderRowOf(c1, t1, c2, t2) :
        c1 \in MapperCols, t1 \in MapperTokens,
        c2 \in MapperCols, t2 \in MapperTokens}

InitMapper ==
    /\ headers \in HeaderRows
    /\ df_raw = NoSheet
    /\ header_row_idx = -1
    /\ cols = UnmappedCols
    /\ df_market = <<>>
    /\ data_msg = ""
    /\ raised = FALSE
    /\ positions = <<>>
    /\ pnl_list = <<>>
    /\ total_pnl = Fin(0)
    /\ clock = 0
    /\ pc = "map"

\* The block "MAP COLUMNS" of fetch_market_data
MapHeaders ==
    /\ pc = "map"
    /\ cols' = MapColumns(headers)
    /\ pc' = "mapped"
    /\ UNCHANGED <<df_raw, headers, header_row_idx, df_market, data_msg, raised,
                   positions, pnl_list, total_pnl, clock>>

SpecMapper == InitMapper /\ [][MapHeaders]_vars

-----------------------------------------------------------------------------
(* Properties of the PnL pass and of the ledger, under Spec. At pc = "ui"    *)
(* the Monitor tab of the run has been drawn from the ledger and the catalog *)
(* as they stand.                                                            *)

\* Whether the catalog holds a record of that name
Present(inst) == \E j \in 1..Len(df_market) : df_market[j].Instrument = inst

\* The index of the first catalog record of that name
FirstIndex(inst) ==
    CHOOSE j \in 1..Len(df_market) :
        /\ df_market[j].Instrument = inst
        /\ \A k \in 1..(j - 1) : df_market[k].Instrument # inst

\* The index of the last catalog record of that name
LastIndex(inst) ==
    CHOOSE j \in 1..Len(df_market) :
        /\ df_market[j].Instrument = inst
        /\ \A k \in (j + 1)..Len(df_market) : df_market[k].Instrument # inst

\* (live_price - entry_price) * lots * tick value
Formula(live, p, tv) == FMul(FMul(FSub(live, p.Entry), Fin(p.Lots)), tv)

\* C1, as stated: for every position whose instrument is in the catalog the row
\* reports pnl = (live_price - entry_price) * lots * effective tick value, live
\* price the catalog record's price, the effective tick value being the
\* position's override whenever that override is not zero, a negative one
\* included, and the catalog record's tick value otherwise.
C1_OverrideWheneverNonZero ==
    pc = "ui" =>
        \A i \in 1..Len(positions) :
            Present(positions[i].Instrument) =>
                LET p == positions[i]
                    rec == df_market[FirstIndex(p.Instrument)]
                IN  /\ i <= Len(pnl_list)
                    /\ pnl_list[i].Live = rec.Price
                    /\ pnl_list[i].PnL =
                          Formula(rec.Price, p,
                                  IF p.TV # Fin(0) THEN p.TV ELSE rec.TickValue)

\* C1, amended: the same, the effective tick value being the override whenever
\* the override is greater than zero, and the catalog record's tick value when
\* the override is zero or negative.
C1_OverrideWhenPositive ==
    pc = "ui" =>
        \A i \in 1..Len(positions) :
            Present(positions[i].Instrument) =>
                LET p == positions[i]
                    rec == df_market[FirstIndex(p.Instrument)]
                IN  /\ i <= Len(pnl_list)
                    /\ pnl_list[i].Live = rec.Price
                    /\ pnl_list[i].PnL =
                          Formula(rec.Price, p,
                                  IF FGtZero(p.TV) THEN p.TV ELSE rec.TickValue)

\* Two positions on a listed instrument drawn in one pass, one with a positive
\* and one with a negative override, both with a profit or loss
C1_Witness ==
    /\ pc = "ui"
    /\ \E i, j \in 1..Len(positions) :
         /\ Present(positions[i].Instrument) /\ positions[i].TV.v > 0
         /\ Present(positions[j].Instrument) /\ positions[j].TV.v < 0
         /\ i <= Len(pnl_list) /\ j <= Len(pnl_list)
         /\ pnl_list[i].PnL # Fin(0) /\ pnl_list[j].PnL # Fin(0)

\* The sum of the PnL column, added up in row order from 0.0
RECURSIVE SumPnL(_)
SumPnL(rows) ==
    IF rows = <<>> THEN Fin(0)
    ELSE FAdd(SumPnL(SubSeq(rows, 1, Len(rows) - 1)), rows[Len(rows)].PnL)

\* C2: the pass emits exactly one row per ledger position, in ledger order; a
\* position whose instrument is not in the catalog gets live_price = 0 and
\* pnl = 0; the total is the sum of the rows, and the rows of the other
\* positions and the total are what the pass yields on the ledger without the
\* positions that miss.
C2_OneRowPerPosition ==
    pc = "ui" =>
        /\ Len(pnl_list) = Len(positions)
        /\ \A i \in 1..Len(positions) :
              /\ i <= Len(pnl_list)
              /\ pnl_list[i].ID = positions[i].id
              /\ pnl_list[i].Instrument = positions[i].Instrument
              /\ ~Present(positions[i].Instrument) =>
                    pnl_list[i].Live = Fin(0) /\ pnl_list[i].PnL = Fin(0)
        /\ total_pnl = SumPnL(pnl_list)
        /\ LET listed == SelectSeq(positions, LAMBDA p : Present(p.Instrument))
               alone == PnLPass(listed, df_market)
           IN  /\ alone.total_pnl = total_pnl
               /\ alone.pnl_list =
                     SelectSeq(pnl_list, LAMBDA row : Present(row.Instrument))

\* A pass over a ledger that holds a position that misses before one that is
\* listed and has a profit or loss
C2_Witness ==
    /\ pc = "ui"
    /\ Len(positions) = 2 /\ Len(pnl_list) = 2
    /\ ~Present(positions[1].Instrument)
    /\ Present(positions[2].Instrument)
    /\ pnl_list[2].PnL # Fin(0)

\* One position appended, the ones held unchanged
IsAdd ==
    /\ Len(positions') = Len(positions) + 1
    /\ SubSeq(positions', 1, Len(positions)) = positions

\* The positions of one id removed, the others kept in their order
IsDelete ==
    \E i \in 1..Len(positions) :
        positions' = SelectSeq(positions, LAMBDA x : x.id # positions[i].id)

\* C8, as stated: the ledger changes only at an add or a delete; a parse pass,
\* a PnL recomputation and a refresh, also one that ends with an empty catalog
\* or a fetch failure, leave the ledger and the catalog unchanged. (The first
\* filling of a catalog still empty is not counted as a change.)
C8_RefreshKeepsCatalog ==
    [][/\ positions' # positions => (pc = "ui" /\ (IsAdd \/ IsDelete))
       /\ pc \in {"load", "fetch", "monitor"} =>
             /\ positions' = positions
             /\ df_market # <<>> => df_market' = df_market]_vars

\* C8, amended: the ledger changes only at an add or a delete; a PnL
\* recomputation, an add and a delete leave the catalog unchanged; a refresh
\* leaves the ledger unchanged, but each run drops the catalog of the run
\* before and builds its own, which is empty when the parse fails.
C8_LedgerFrame ==
    [][/\ positions' # positions => (pc = "ui" /\ (IsAdd \/ IsDelete))
       /\ pc \in {"load", "fetch", "monitor"} => positions' = positions
       /\ pc \in {"monitor", "ui"} => df_market' = df_market
       /\ pc = "load" => df_market' = <<>>]_vars

\* The older of two positions has been deleted, and the refresh that followed
\* has failed in the fetch: the ledger is kept, the catalog is empty
C8_Witness ==
    /\ pc = "stopped"
    /\ Len(positions) = 1 /\ positions[1].id > 0
    /\ ~df_raw.ok
    /\ df_market = <<>>
    /\ data_msg \notin {"", "Success"}

\* C10, as stated: no two records of the catalog have the same instrument name,
\* and the price used for a position on a name is that of its last occurrence.
C10_UniqueNames ==
    /\ \A i, j \in 1..Len(df_market) :
          i # j => df_market[i].Instrument # df_market[j].Instrument
    /\ pc = "ui" =>
          \A i \in 1..Len(positions) :
              Present(positions[i].Instrument) =>
                  /\ i <= Len(pnl_list)
                  /\ pnl_list[i].Live =
                        df_market[LastIndex(positions[i].Instrument)].Price

\* The columns of the three blocks' names in the column map
NameColOf(c, b) ==
    CASE b = "Outright" -> c.out_name [] b = "Spread" -> c.spd_name
      [] OTHER -> c.fly_name

\* The name cells below row k that pass the name filter, as <<row, block>>
ValidNameCells(df, k, c) ==
    {rb \in (((k + 1)..(df.nrows - 1)) \X Blocks) :
        /\ NameColOf(c, rb[2]) < df.ncols
        /\ NameOk(PyStr(CellAt(df, rb[1], NameColOf(c, rb[2]))))}

\* C10, amended: the catalog keeps one record for every occurrence of a name (a
\* name that occurs in several rows or blocks has several records, none
\* overwrites another), and the price and tick value used for a position on
\* that name are those of the first occurrence.
C10_FirstOccurrence ==
    pc = "ui" =>
        /\ Len(df_market) =
              Cardinality(ValidNameCells(df_raw, header_row_idx, cols))
        /\ \A i \in 1..Len(positions) :
              Present(positions[i].Instrument) =>
                  LET p == positions[i]
                      rec == df_market[FirstIndex(p.Instrument)]
                  IN  /\ i <= Len(pnl_list)
                      /\ pnl_list[i].Live = rec.Price
                      /\ ~FGtZero(p.TV) =>
                            pnl_list[i].PnL = Formula(rec.Price, p, rec.TickValue)

\* A position on a name that the catalog lists twice, at two prices
C10_Witness ==
    /\ pc = "ui"
    /\ \E i \in 1..Len(positions) :
         /\ Present(positions[i].Instrument)
         /\ FirstIndex(positions[i].Instrument) # LastIndex(positions[i].Instrument)
         /\ df_market[FirstIndex(positions[i].Instrument)].Price
              # df_market[LastIndex(positions[i].Instrument)].Price
         /\ ~FGtZero(positions[i].TV)
         /\ i <= Len(pnl_list)

-----------------------------------------------------------------------------
(* Properties of fetch_market_data, under SpecParse. At pc # "fetch" the     *)
(* call on df_raw has returned or raised.                                    *)

\* Whether row r of the sheet has a cell whose string equals one of the tokens
HasToken(df, r, tokens) == \E t \in tokens : InList(t, RowVals(df, r))

\* The rows the header scan can look at
ScanRows(df) == 0..(Min(df.nrows, ScanLimit) - 1)

\* Whether r is the lowest row within the scan limit that has one of the tokens
FirstTokenRow(df, r, tokens) ==
    /\ r \in ScanRows(df)
    /\ HasToken(df, r, tokens)
    /\ \A j \in 0..(r - 1) : ~HasToken(df, j, tokens)

\* C3: fetch_market_data never raises, whatever the sheet, one with fewer rows
\* than the scan limit or fewer columns than the mapped indices included; when
\* the sheet cannot be read, when no header row lies within the scan limit, or
\* when anything else fails, it returns an empty catalog and a message that is
\* not empty.
C3_NeverRaises ==
    pc # "fetch" =>
        /\ ~raised
        /\ pc # "crashed"
        /\ (~df_raw.ok
            \/ \A r \in ScanRows(df_raw) :
                   ~HasToken(df_raw, r, {"Outrights", "Spread"})) =>
              /\ df_market = <<>>
              /\ data_msg \notin {"", "Success"}
        /\ data_msg # "Success" => (df_market = <<>> /\ data_msg # "")
        /\ (/\ header_row_idx >= 0
            /\ header_row_idx + 1 < df_raw.nrows
            /\ cols.out_name >= df_raw.ncols) =>
              /\ df_market = <<>>
              /\ data_msg \notin {"", "Success"}

\* A sheet shorter than the scan limit whose header row is found and whose
\* first data row is narrower than a mapped column: the lookup fails and the
\* call returns its message
C3_Witness ==
    /\ pc = "stopped"
    /\ df_raw.ok
    /\ df_raw.nrows < ScanLimit
    /\ header_row_idx >= 0
    /\ header_row_idx + 1 < df_raw.nrows
    /\ \E k \in {cols.out_last, cols.spd_name, cols.fly_name} : k >= df_raw.ncols
    /\ df_market = <<>>
    /\ data_msg \notin {"", "Success"}

\* C4, as stated: the header row index is that of the first row, among the
\* first 15 rows, that has a cell "Outrights", "Outright" or "Spread", and the
\* data rows are exactly the rows after it.
C4_ThreeTokens ==
    (pc # "fetch" /\ df_raw.ok) =>
        \A k \in ScanRows(df_raw) :
            FirstTokenRow(df_raw, k, {"Outrights", "Outright", "Spread"}) =>
                /\ header_row_idx = k
                /\ data_msg = "Success" =>
                      Len(df_market) = Cardinality(ValidNameCells(df_raw, k, cols))

\* C4, amended: the header row index is that of the first row, among the first
\* 15 rows, that has a cell equal to "Outrights" or to "Spread" (a cell
\* "Outright" is not a header token); the header cells are read from that row
\* and the data rows are exactly the rows after it: a successful parse has one
\* record for every valid name cell below the header row and none for a row at
\* or above it. Without such a row no header row index is set.
C4_TwoTokens ==
    (pc # "fetch" /\ df_raw.ok) =>
        /\ \A k \in ScanRows(df_raw) :
              FirstTokenRow(df_raw, k, {"Outrights", "Spread"}) =>
                  /\ header_row_idx = k
                  /\ headers = HeaderCells(df_raw, k)
                  /\ data_msg = "Success" =>
                        /\ Len(df_market) =
                              Cardinality(ValidNameCells(df_raw, k, cols))
                        /\ \A i \in 1..Len(df_market) :
                              \E rb \in ValidNameCells(df_raw, k, cols) :
                                  /\ rb[2] = df_market[i].Type
                                  /\ df_market[i].Instrument =
                                        PyStr(CellAt(df_raw, rb[1],
                                                     NameColOf(cols, rb[2])))
        /\ (\A r \in ScanRows(df_raw) :
                ~HasToken(df_raw, r, {"Outrights", "Spread"})) =>
              header_row_idx = -1

\* The header found on row 3 although row 1 has a cell "Outright", and the
\* records taken from the rows below row 3 only
C4_Witness ==
    /\ pc = "monitor"
    /\ header_row_idx = 3
    /\ InList("Outright", RowVals(df_raw, 1))
    /\ \E r \in 0..2 : PyStr(CellAt(df_raw, r, 25)) = "FLY1"
    /\ data_msg = "Success"
    /\ Len(df_market) = 2

\* C6, as stated: a name cell that is "", "NaN" or "None" in any letter case,
\* null, or made of whitespace only yields no record, so no record of the
\* catalog has such a name.
C6_NoBlankNames ==
    \A i \in 1..Len(df_market) :
        /\ Strip(df_market[i].Instrument) # ""
        /\ Lower(df_market[i].Instrument) \notin {"nan", "none"}

\* C7, as stated: clean_float returns a finite number for every cell, so the
\* Price and the TickValue of every record of the catalog are finite.
C7_FinitePrices ==
    \A i \in 1..Len(df_market) :
        /\ IsFinite(df_market[i].Price)
        /\ IsFinite(df_market[i].TickValue)

-----------------------------------------------------------------------------
(* Properties of the column mapper, under SpecMapper. At pc = "mapped" cols  *)
(* is the column map of the header row in headers.                           *)

Keywords ==
    {"outright", "symbol", "last", "price", "tick value", "spread", "ltp", "fly"}

\* Whether some header cell contains a keyword, letter case ignored
HasKeyword(hs) ==
    \E i \in 1..Len(hs) :
        \E h \in {Lower(hs[i])} : \E k \in Keywords : Contains(h, k)

\* C5: for a header row in which no cell contains a keyword the column map is
\* the fallback table out_name 1, out_last 3, out_tv 14, spd_name 13,
\* spd_last 14, fly_name 25, fly_last 26; and for every header row none of the
\* seven indices is left at -1.
C5_FallbackTable ==
    pc = "mapped" =>
        /\ \A f \in DOMAIN cols : cols[f] # -1
        /\ ~HasKeyword(headers) =>
              cols = [out_name |-> 1, out_last |-> 3, out_tv |-> 14,
                      spd_name |-> 13, spd_last |-> 14,
                      fly_name |-> 25, fly_last |-> 26]

\* A header row mapped whose only text cells are "Bid", in a column where a
\* keyword would have counted
C5_Witness ==
    /\ pc = "mapped"
    /\ ~HasKeyword(headers)
    /\ headers[14] = "Bid"
    /\ cols.spd_name = 13
    /\ cols.spd_last = 14

\* C9, as stated: for every header row (here: one the header scan accepts) the
\* column map has spd_last > spd_name and fly_last > fly_name.
C9_LastAfterName ==
    (pc = "mapped" /\ IsHeaderRow(headers)) =>
        /\ cols.spd_last > cols.spd_name
        /\ cols.fly_last > cols.fly_name

====
